---------------------------- MODULE Spec2Model ----------------------------
(***************************************************************************)
(* The ordered parallel CSV sink of polars-stream                          *)
(* (crates/polars-stream/src/nodes/io_sinks/csv.rs, CsvSinkNode).          *)
(*                                                                         *)
(* num_pipelines encode tasks receive morsels from their input channel,    *)
(* encode them and insert the buffers into a linearizer; one IO task opens *)
(* the destination, writes the header/BOM, drains the linearizer into the  *)
(* file, syncs and closes.  The upstream producer, the morsel channels,    *)
(* the Linearizer, the CsvWriter and the Writeable handle live outside     *)
(* csv.rs and are modelled from their contracts.                           *)
(*                                                                         *)
(* Spec is the sink in any configuration on one-line morsels, FairSpec is  *)
(* Spec with fair task scheduling, SizedSpec and EmptySpec are the sink on *)
(* morsels of large encoded lengths and of zero rows.                      *)
(*                                                                         *)
(* FinishSpec is LazyFileListReader::finish                                *)
(* (crates/polars-lazy/src/scan/file_list_reader.rs): path expansion, one  *)
(* reader per file, concatenation, row limit and row index.  ExpandSpec is *)
(* expand_paths of the same file on a small file system: the loop over the *)
(* paths and the extension check of a single directory's expansion.        *)
(***************************************************************************)
EXTENDS Integers, Sequences, FiniteSets, TLC

\* Number of morsels the upstream emits at most.
MaxMorsels == 3

\* Capacity of one linearizer lane (csv.rs:18 imports it, csv.rs:87 passes it).
DEFAULT_SINK_LINEARIZER_BUFFER_SIZE == 1

\* csv.rs:77, the number of pipeline lanes P.
num_pipelines == 2

\* Number of files a scan can expand to, rows in one file, and the largest
\* low word of a row limit.
MaxPaths == 2
MaxFileRows == 2
MaxNRows == 2

\* The paths given to expand_paths, the entries of a directory or of a glob's
\* matches, the entries of a directory inside a directory, the lengths of a
\* path's string and the parent directories.
MaxArgs == 2
MaxEntries == 2
MaxChildren == 1
MaxPathLen == 2
MaxParents == 2

Lanes == 1..num_pipelines

VARIABLES
    maintain_order,   \* sink_options.maintain_order
    sync_on_close,    \* sink_options.sync_on_close: "none" | "data" | "all"
    include_header,   \* write_options.include_header
    include_bom,      \* write_options.include_bom
    backend,          \* what Writeable::try_new resolves the path to: "Local" | "Cloud"
    sizes,            \* input: sizes[seq] is the byte length morsel seq encodes to
    nextSeq,          \* upstream: the seq of the next morsel to emit
    upClosed,         \* upstream: all morsel senders dropped
    chan,             \* chan[l]: the morsel queued on lane l's input channel, or NoMorsel
    pc,               \* pc[l]: where encode task l is: "recv" | "encode" | "insert" | "done"
    encMorsel,        \* encMorsel[l]: the morsel encode task l is encoding, or NoMorsel
    encBuf,           \* encBuf[l]: the encoded buffer task l is inserting, or NoBuffer
    encTok,           \* encTok[l]: encode task l holds a consume_token
    encRes,           \* encRes[l]: "pending" | "ok" | "err", the encode task's result
    allocation_size,  \* allocation_size[l]: the capacity task l allocates its next buffer with
    lanes,            \* lanes[l]: the linearizer's buffer of lane l (a sequence of buffers)
    ioPc,             \* IO task: "open" | "header" | "async" | "get" | "write" | "sync" | "close" | "done"
    ioBuf,            \* IO task: the buffer taken from lin_rx.get() and not yet written
    ioLog,            \* IO task: the operations performed on the file, in order
    ioRes,            \* IO task: "pending" | "ok" | "err"
    ioErrAt,          \* IO task: the step that failed, or "none"
    joinRes,          \* the IO join handle registered with the caller
    recvd             \* history: << l, seq >> for every morsel seq received by encode task l

\* LazyFileListReader::finish (crates/polars-lazy/src/scan/file_list_reader.rs).
VARIABLES
    glob,             \* self.glob()
    n_rows,           \* self.n_rows(): Option<usize>
    row_index,        \* self.row_index(): Option<RowIndex>, its offset
    paths,            \* self.paths()
    idx64,            \* the build's IdxSize is u64 (else u32)
    expansion,        \* what self.expand_paths_default() returns: Ok(paths) or Err
    rowsOf,           \* rowsOf[p]: the number of rows in the file p
    finPc,            \* finish: "idle" | "start" | "read" | "collect" | "done"
    readers,          \* history: the per-file readers finish has built
    lfs,              \* the per-file frames collected so far
    finRes            \* what finish returns

\* expand_paths (crates/polars-lazy/src/scan/file_list_reader.rs:44-277); its
\* `glob` parameter is the variable glob above.
VARIABLES
    arg_paths,        \* the `paths` parameter, each path with what the file system holds at it
    check_directory_level, \* the `check_directory_level` parameter
    is_cloud,         \* is_cloud_url(first_path)
    force_async,      \* config::force_async() on a non-windows target
    exPc,             \* expand_paths: "idle" | "start" | "loop" | "check" | "done"
    path_idx,         \* the index of the next path of the loop (from 1)
    out_paths,        \* the paths collected so far
    expand_start_idx, \* usize::MAX until the first update
    exRes             \* what expand_paths returns, or its panic

vars == << maintain_order, sync_on_close, include_header, include_bom, backend,
           sizes, nextSeq, upClosed, chan, pc, encMorsel, encBuf, encTok, encRes,
           allocation_size, lanes,
           ioPc, ioBuf, ioLog, ioRes, ioErrAt, joinRes, recvd,
           glob, n_rows, row_index, paths, idx64, expansion, rowsOf, finPc,
           readers, lfs, finRes,
           arg_paths, check_directory_level, is_cloud, force_async, exPc,
           path_idx, out_paths, expand_start_idx, exRes >>

config == << maintain_order, sync_on_close, include_header, include_bom, backend >>
upstream == << nextSeq, upClosed >>
encoder == << pc, encMorsel, encBuf, encTok, encRes, allocation_size >>
iotask == << ioPc, ioBuf, ioLog, ioRes, ioErrAt >>
expand == << arg_paths, check_directory_level, is_cloud, force_async, exPc,
             path_idx, out_paths, expand_start_idx, exRes >>
scan == << glob, n_rows, row_index, paths, idx64, expansion, rowsOf, finPc,
           readers, lfs, finRes, expand >>

\* The None of an Option<Morsel> and of an Option<buffer>.
NoMorsel == [seq |-> -1]
NoBuffer == [seq |-> -1, bytes |-> << >>]

----------------------------------------------------------------------------
\* Output items: a BOM, a header line, the rows of the morsel with a seq.
BomItem == [k |-> "bom", s |-> -1]
HdrItem == [k |-> "hdr", s |-> -1]
RowItem(s) == [k |-> "row", s |-> s]

\* CsvWriter ... .batched(schema) then write_batch(df): the BOM (if asked),
\* the header (if asked), then the rows of df.
CsvWriteBatch(bom, header, rows) ==
    (IF bom THEN << BomItem >> ELSE << >>) \o
    (IF header THEN << HdrItem >> ELSE << >>) \o rows

\* csv.rs:112-113: the encode task's writer flags.
EncoderIncludeBomConfigured == include_bom
EncoderIncludeBom == FALSE
EncoderIncludeHeaderConfigured == include_header
EncoderIncludeHeader == FALSE

\* The record lines of the frame of morsel seq: none for a frame of zero rows.
MorselRows(seq) == IF sizes[seq] = 0 THEN << >> ELSE << RowItem(seq) >>

\* csv.rs:110-127: the buffer an encode task builds for the morsel seq.
EncodeMorsel(seq) ==
    [seq |-> seq,
     bytes |-> CsvWriteBatch(EncoderIncludeBom, EncoderIncludeHeader, MorselRows(seq))]

\* csv.rs:92: the capacity of an encode task's first buffer.
DEFAULT_ALLOCATION_SIZE == 16777216

\* buffer.len() after write_batch(&df) for the morsel seq (csv.rs:127-129); the
\* task's writer emits the rows only.
BufferLen(seq) == sizes[seq]

Max(a, b) == IF a >= b THEN a ELSE b

\* csv.rs:129: allocation_size = allocation_size.max(buffer.len()).
AllocationSizeOverwritten(alloc, len) == len
AllocationSizeUpdate(alloc, len) == Max(alloc, len)

\* csv.rs:163-168: what the IO task's header writer emits for the empty frame.
HeaderBytes == CsvWriteBatch(include_bom, include_header, << >>)

----------------------------------------------------------------------------
\* The `?` of a fallible step: on Err the task returns at once, else it goes on.
QuestionMarkIgnored(fails, cont) == cont
QuestionMark(fails, cont) == IF fails THEN "done" ELSE cont

\* csv.rs:132: drop(consume_token) before the insert; what the task holds after it.
TokenKeptUntilInserted(held) == held
TokenAfterDrop(held) == FALSE

\* csv.rs:125-127: a failed `?` returns from the task, which drops the morsel's
\* consume_token with the rest of the scope; what the task holds after it.
TokenLeaked(held) == held
TokenAfterReturn(held) == FALSE

\* csv.rs:107/140: rx.recv() returned Err (channel closed): leave the loop, return Ok.
OnRecvClosedSpin == "recv"
OnRecvClosed == "done"

\* csv.rs:127-135: once the morsel is encoded the task awaits the insert of
\* its buffer before it receives again.
AfterEncodeReceive == "recv"
AfterEncode == "insert"

\* csv.rs:135-137: insert returned Err (consumer dropped): `return Ok(())`.
OnInsertClosedErr == "err"
OnInsertClosed == "ok"

\* csv.rs:173-175: `while let`: after a write the IO task gets the next buffer.
AfterWriteExit == "sync"
AfterWrite == "get"

\* csv.rs:173-179: when get() returns None the loop ends and the sync step follows.
AfterDrainSkipSync == "close"
AfterDrain == "sync"

\* csv.rs:85-89: the arguments of Linearizer::new_with_maintain_order.
LinMaintainOrderOff == FALSE
LinMaintainOrder == maintain_order
LinBufferSizeOffByOne == DEFAULT_SINK_LINEARIZER_BUFFER_SIZE + 1
LinBufferSize == DEFAULT_SINK_LINEARIZER_BUFFER_SIZE

----------------------------------------------------------------------------
\* Linearizer (modelled from its contract).
LinRxDropped == ioPc = "done"           \* the IO task ended: lin_rx is dropped
LinTxDropped(l) == pc[l] = "done"       \* encode task l ended: its lin_tx is dropped
RxDropped(l) == pc[l] = "done"          \* encode task l ended: its morsel receiver is dropped

Heads == { l \in Lanes : lanes[l] # << >> }

\* The lanes lin_rx.get() may take its next buffer from.
LinReady ==
    IF LinMaintainOrder
    THEN IF \A l \in Lanes : lanes[l] # << >> \/ LinTxDropped(l)
         THEN { l \in Heads : \A m \in Heads : Head(lanes[l]).seq <= Head(lanes[m]).seq }
         ELSE {}
    ELSE Heads

\* lin_rx.get() returns None.
LinNone == \A l \in Lanes : lanes[l] = << >> /\ LinTxDropped(l)

EmptyLanes == [l \in Lanes |-> << >>]

\* Upstream (modelled from its contract): one consume-token credit per lane.
UpstreamCredits == num_pipelines
TokensOut == Cardinality({ l \in Lanes : chan[l] # NoMorsel })
             + Cardinality({ l \in Lanes : encTok[l] })
HasCredit == TokensOut < UpstreamCredits

----------------------------------------------------------------------------
\* LazyFileListReader::finish (file_list_reader.rs:285-325).

Paths == 1..MaxPaths

\* A usize as its high word and its low 32 bits: hi * 2^32 + lo.
Usize(hi, lo) == [hi |-> hi, lo |-> lo]

\* Option<T>.
NoneOpt == [some |-> FALSE, v |-> Usize(0, 0)]
SomeOpt(x) == [some |-> TRUE, v |-> x]

\* `n_rows as IdxSize` (file_list_reader.rs:318): the identity when IdxSize is
\* u64, the low 32 bits when it is u32.
AsIdxSize(n) == IF idx64 THEN n ELSE Usize(0, n.lo)

Min(a, b) == IF a <= b THEN a ELSE b

\* The first len rows of a frame (frames of the model are shorter than 2^32).
Slice(frame, len) ==
    IF len.hi > 0 THEN frame ELSE SubSeq(frame, 1, Min(len.lo, Len(frame)))

\* The frame with a row index column added, counting from offset.
WithRowIndex(frame, offset) ==
    [i \in 1..Len(frame) |-> [frame[i] EXCEPT !.idx = Append(@, offset + (i - 1))]]

\* The rows of the file p, without a row index.
FileFrame(p) == [i \in 1..rowsOf[p] |-> [path |-> p, r |-> i, idx |-> << >>]]

RECURSIVE Concat(_)
Concat(frames) ==
    IF frames = << >> THEN << >> ELSE Head(frames) \o Concat(Tail(frames))

\* A reader: what with_n_rows, with_row_index, with_paths and with_rechunk set.
Reader(n, ri, ps, rechunk) ==
    [n_rows |-> n, row_index |-> ri, paths |-> ps, rechunk |-> rechunk]

\* self.
Self == Reader(n_rows, row_index, paths, TRUE)

\* file_list_reader.rs:295-301: the reader of one expanded path.
PerFileRowIndex == NoneOpt
PerFileNRows == NoneOpt
PerFileReader(path) == Reader(PerFileNRows, PerFileRowIndex, << path >>, FALSE)

\* finish_no_glob of a reader: the rows of its paths, limited to its n_rows
\* and with its row index.
FinishNoGlob(reader) ==
    LET all == Concat([i \in 1..Len(reader.paths) |-> FileFrame(reader.paths[i])])
        limited == IF reader.n_rows.some THEN Slice(all, reader.n_rows.v) ELSE all
    IN  IF reader.row_index.some
        THEN WithRowIndex(limited, reader.row_index.v)
        ELSE limited

Pending == [kind |-> "pending", frame |-> << >>, msg |-> ""]
OkFrame(frame) == [kind |-> "Ok", frame |-> frame, msg |-> ""]
ErrOf(kind, msg) == [kind |-> kind, frame |-> << >>, msg |-> msg]

\* file_list_reader.rs:311-314.
NoMatchingFiles == ErrOf("ComputeError", "no matching files found")

\* The sequences of distinct paths, in ascending order.
PathLists ==
    { ps \in UNION { [1..n -> Paths] : n \in 0..MaxPaths } :
        \A i, j \in 1..Len(ps) : i < j => ps[i] < ps[j] }

\* usize::MAX, the start of expand_start_idx (file_list_reader.rs:57), and a
\* smaller value.
UsizeMax == [max |-> TRUE, v |-> 0]
Idx(i) == [max |-> FALSE, v |-> i]

\* What expand_paths returns: Ok((out_paths, expand_start_idx)), an error, or
\* the panic that ends it.
ExPending == [kind |-> "pending", paths |-> << >>, idx |-> UsizeMax, msg |-> ""]
ExOk(ps, idx) == [kind |-> "Ok", paths |-> ps, idx |-> idx, msg |-> ""]
ExErr(kind, msg) == [kind |-> kind, paths |-> << >>, idx |-> UsizeMax, msg |-> msg]
ExPanic(msg) == [kind |-> "panic", paths |-> << >>, idx |-> UsizeMax, msg |-> msg]

\* expand_paths is not being called.
NoExpand ==
    /\ arg_paths = << >>
    /\ check_directory_level = FALSE
    /\ is_cloud = FALSE
    /\ force_async = FALSE
    /\ exPc = "idle"
    /\ path_idx = 1
    /\ out_paths = << >>
    /\ expand_start_idx = UsizeMax
    /\ exRes = ExPending

\* No scan is being built.
NoScan ==
    /\ glob = TRUE
    /\ n_rows = NoneOpt
    /\ row_index = NoneOpt
    /\ paths = << >>
    /\ idx64 = FALSE
    /\ expansion = [ok |-> TRUE, paths |-> << >>]
    /\ rowsOf = [p \in Paths |-> 0]
    /\ finPc = "idle"
    /\ readers = << >>
    /\ lfs = << >>
    /\ finRes = Pending
    /\ NoExpand

----------------------------------------------------------------------------
\* The morsels the upstream can emit.
MorselSeqs == 0..(MaxMorsels - 1)

\* The state of the tasks once spawn_sink_once has spawned them.
InitTasks ==
    /\ nextSeq = 0
    /\ upClosed = FALSE
    /\ chan = [l \in Lanes |-> NoMorsel]
    /\ pc = [l \in Lanes |-> "recv"]
    /\ encMorsel = [l \in Lanes |-> NoMorsel]
    /\ encBuf = [l \in Lanes |-> NoBuffer]
    /\ encTok = [l \in Lanes |-> FALSE]
    /\ encRes = [l \in Lanes |-> "pending"]
    /\ allocation_size = [l \in Lanes |-> DEFAULT_ALLOCATION_SIZE]
    /\ lanes = EmptyLanes
    /\ ioPc = "open"
    /\ ioBuf = NoBuffer
    /\ ioLog = << >>
    /\ ioRes = "pending"
    /\ ioErrAt = "none"
    /\ joinRes = "pending"
    /\ recvd = {}

\* Any configuration of the sink, on morsels that encode to a single byte.
Init ==
    /\ maintain_order \in BOOLEAN
    /\ sync_on_close \in {"none", "data", "all"}
    /\ include_header \in BOOLEAN
    /\ include_bom \in BOOLEAN
    /\ backend \in {"Local", "Cloud"}
    /\ sizes = [s \in MorselSeqs |-> 1]
    /\ InitTasks
    /\ NoScan

\* The byte lengths a morsel encodes to: below the default capacity, and two
\* lengths above it.
BufferLens == {1, DEFAULT_ALLOCATION_SIZE + 1, DEFAULT_ALLOCATION_SIZE + 2}

\* The ordered sink with any header and BOM flags, on morsels of zero rows
\* (which encode to zero bytes) and of one record line.
EmptyInit ==
    /\ maintain_order = TRUE
    /\ sync_on_close = "none"
    /\ include_header \in BOOLEAN
    /\ include_bom \in BOOLEAN
    /\ backend = "Cloud"
    /\ sizes \in [MorselSeqs -> {0, 1}]
    /\ InitTasks
    /\ NoScan

\* One configuration of the sink, on morsels of any of these lengths.
SizedInit ==
    /\ maintain_order = TRUE
    /\ sync_on_close = "all"
    /\ include_header = TRUE
    /\ include_bom = FALSE
    /\ backend = "Local"
    /\ sizes \in [MorselSeqs -> BufferLens]
    /\ InitTasks
    /\ NoScan

----------------------------------------------------------------------------
\* Upstream producer.

\* The producer sends the next morsel to a lane whose channel has room.
UpSend(l) ==
    /\ ~upClosed /\ nextSeq < MaxMorsels /\ HasCredit
    /\ ~RxDropped(l) /\ chan[l] = NoMorsel
    /\ chan' = [chan EXCEPT ![l] = [seq |-> nextSeq]]
    /\ nextSeq' = nextSeq + 1
    /\ UNCHANGED << scan, config, sizes, upClosed, encoder, lanes, iotask, joinRes, recvd >>

\* The send finds the receiver dropped: the producer stops.
UpSendClosed(l) ==
    /\ ~upClosed /\ nextSeq < MaxMorsels /\ HasCredit
    /\ RxDropped(l)
    /\ upClosed' = TRUE
    /\ UNCHANGED << scan, config, sizes, nextSeq, chan, encoder, lanes, iotask, joinRes, recvd >>

\* End of input: the producer drops every sender.
UpClose ==
    /\ ~upClosed /\ HasCredit
    /\ upClosed' = TRUE
    /\ UNCHANGED << scan, config, sizes, nextSeq, chan, encoder, lanes, iotask, joinRes, recvd >>

----------------------------------------------------------------------------
\* Encode task l.

\* csv.rs:107-108: rx.recv().await.
EncRecv(l) ==
    /\ pc[l] = "recv"
    /\ IF chan[l] # NoMorsel
       THEN /\ encMorsel' = [encMorsel EXCEPT ![l] = chan[l]]
            /\ encTok' = [encTok EXCEPT ![l] = TRUE]
            /\ chan' = [chan EXCEPT ![l] = NoMorsel]
            /\ pc' = [pc EXCEPT ![l] = "encode"]
            /\ recvd' = recvd \cup {<< l, chan[l].seq >>}
            /\ UNCHANGED encRes
       ELSE /\ upClosed
            /\ pc' = [pc EXCEPT ![l] = OnRecvClosed]
            /\ encRes' = [encRes EXCEPT ![l] = IF OnRecvClosed = "done" THEN "ok" ELSE @]
            /\ UNCHANGED << encMorsel, encTok, chan, recvd >>
    /\ UNCHANGED << scan, config, sizes, upstream, encBuf, allocation_size, lanes, iotask, joinRes >>

\* csv.rs:110-132: encode the morsel, then drop the consume_token.  A failed
\* `?` returns the error and drops the morsel, the token, rx and lin_tx.
EncEncode(l) ==
    /\ pc[l] = "encode"
    /\ \E fails \in BOOLEAN :
          /\ pc' = [pc EXCEPT ![l] = QuestionMark(fails, AfterEncode)]
          /\ IF QuestionMark(fails, AfterEncode) = "done"
             THEN /\ encRes' = [encRes EXCEPT ![l] = "err"]
                  /\ encTok' = [encTok EXCEPT ![l] = TokenAfterReturn(@)]
                  /\ chan' = [chan EXCEPT ![l] = NoMorsel]
                  /\ UNCHANGED << encBuf, allocation_size >>
             ELSE /\ encBuf' = [encBuf EXCEPT ![l] = EncodeMorsel(encMorsel[l].seq)]
                  /\ allocation_size' =
                        [allocation_size EXCEPT
                            ![l] = AllocationSizeUpdate(@, BufferLen(encMorsel[l].seq))]
                  /\ encTok' = [encTok EXCEPT ![l] = TokenAfterDrop(@)]
                  /\ UNCHANGED << encRes, chan >>
    /\ encMorsel' = [encMorsel EXCEPT ![l] = NoMorsel]
    /\ UNCHANGED << scan, config, sizes, upstream, lanes, iotask, joinRes, recvd >>

\* csv.rs:135-137: lin_tx.insert(..).await; Err (consumer dropped) returns Ok.
EncInsert(l) ==
    /\ pc[l] = "insert"
    /\ IF LinRxDropped
       THEN /\ pc' = [pc EXCEPT ![l] = "done"]
            /\ encRes' = [encRes EXCEPT ![l] = OnInsertClosed]
            /\ chan' = [chan EXCEPT ![l] = NoMorsel]
            /\ UNCHANGED lanes
       ELSE /\ Len(lanes[l]) < LinBufferSize
            /\ lanes' = [lanes EXCEPT ![l] = Append(@, encBuf[l])]
            /\ pc' = [pc EXCEPT ![l] = "recv"]
            /\ UNCHANGED << encRes, chan >>
    /\ encBuf' = [encBuf EXCEPT ![l] = NoBuffer]
    /\ encTok' = [encTok EXCEPT ![l] = FALSE]
    /\ UNCHANGED << scan, config, sizes, upstream, encMorsel, allocation_size, iotask, joinRes, recvd >>

----------------------------------------------------------------------------
\* IO task.

Op(name, data) == [op |-> name, data |-> data]

\* One fallible step `step` of the task, `expr?`: on Ok the file operation
\* `entry` has happened and the task goes on at `cont`; on Err the task
\* returns the error, which drops lin_rx and the file.
IOTry(step, cont, entry) ==
    \E fails \in BOOLEAN :
       LET nxt == QuestionMark(fails, cont) IN
       /\ ioPc' = nxt
       /\ ioErrAt' = IF fails /\ ioErrAt = "none" THEN step ELSE ioErrAt
       /\ ioBuf' = NoBuffer
       /\ IF fails /\ nxt = "done"
          THEN /\ ioRes' = "err"
               /\ lanes' = EmptyLanes
               /\ UNCHANGED ioLog
          ELSE /\ ioLog' = ioLog \o entry
               /\ ioRes' = IF nxt = "done" THEN "ok" ELSE ioRes
               /\ UNCHANGED lanes

\* csv.rs:156-159: Writeable::try_new(path, cloud_options)?
IOOpen ==
    /\ ioPc = "open"
    /\ IOTry("open", "header", << Op("open", << >>) >>)
    /\ UNCHANGED << scan, config, sizes, upstream, chan, encoder, joinRes, recvd >>

\* csv.rs:161-169: the header and/or BOM, written through a CsvWriter.
IOHeader ==
    /\ ioPc = "header"
    /\ IF include_header \/ include_bom
       THEN IOTry("header", "async", << Op("header", HeaderBytes) >>)
       ELSE /\ ioPc' = "async"
            /\ UNCHANGED << ioBuf, ioLog, ioRes, ioErrAt, lanes >>
    /\ UNCHANGED << scan, config, sizes, upstream, chan, encoder, joinRes, recvd >>

\* csv.rs:171: file.try_into_async_writeable()?
IOAsync ==
    /\ ioPc = "async"
    /\ IOTry("async", "get", << >>)
    /\ UNCHANGED << scan, config, sizes, upstream, chan, encoder, joinRes, recvd >>

\* csv.rs:173: lin_rx.get().await: Some(buffer), or None and the loop ends.
IOGet ==
    /\ ioPc = "get"
    /\ \/ \E l \in LinReady :
             /\ ioBuf' = Head(lanes[l])
             /\ lanes' = [lanes EXCEPT ![l] = Tail(@)]
             /\ ioPc' = "write"
       \/ /\ LinNone
          /\ ioPc' = AfterDrain
          /\ UNCHANGED << ioBuf, lanes >>
    /\ UNCHANGED << scan, config, sizes, upstream, chan, encoder, ioLog, ioRes, ioErrAt, joinRes, recvd >>

\* csv.rs:174: file.write_all(&buffer).await?
IOWrite ==
    /\ ioPc = "write"
    /\ IOTry("write", AfterWrite, << Op("write", ioBuf.bytes) >>)
    /\ UNCHANGED << scan, config, sizes, upstream, chan, encoder, joinRes, recvd >>

\* tokio_sync_on_close(sync_on_close, file): whether it issues an fsync.
SyncIssued == sync_on_close \in {"data", "all"}

\* csv.rs:177: `if let AsyncWriteable::Local(file) = &mut file`.
IsAnyWriteable == TRUE
IsLocalWriteable == backend = "Local"

\* csv.rs:177-179: only a Local file is synced.
IOSync ==
    /\ ioPc = "sync"
    /\ IF IsLocalWriteable /\ SyncIssued
       THEN IOTry("sync", "close", << Op("sync", << >>) >>)
       ELSE /\ ioPc' = "close"
            /\ UNCHANGED << ioBuf, ioLog, ioRes, ioErrAt, lanes >>
    /\ UNCHANGED << scan, config, sizes, upstream, chan, encoder, joinRes, recvd >>

\* csv.rs:181-183: file.close().await?; Ok(())
IOClose ==
    /\ ioPc = "close"
    /\ IOTry("close", "done", << Op("close", << >>) >>)
    /\ UNCHANGED << scan, config, sizes, upstream, chan, encoder, joinRes, recvd >>

\* csv.rs:185-189: the join handle resolves with the IO task's result.
IOJoin ==
    /\ ioPc = "done" /\ joinRes = "pending"
    /\ joinRes' = ioRes
    /\ UNCHANGED << scan, config, sizes, upstream, chan, encoder, lanes, iotask, recvd >>

----------------------------------------------------------------------------
Next ==
    \/ \E l \in Lanes : UpSend(l)
    \/ \E l \in Lanes : UpSendClosed(l)
    \/ UpClose
    \/ \E l \in Lanes : EncRecv(l)
    \/ \E l \in Lanes : EncEncode(l)
    \/ \E l \in Lanes : EncInsert(l)
    \/ IOOpen
    \/ IOHeader
    \/ IOAsync
    \/ IOGet
    \/ IOWrite
    \/ IOSync
    \/ IOClose
    \/ IOJoin

Spec == Init /\ [][Next]_vars

\* The same sink on morsels some of which have zero rows.
EmptySpec == EmptyInit /\ [][Next]_vars

\* The same sink on morsels of any encoded length.
SizedSpec == SizedInit /\ [][Next]_vars

\* The fairness of the executors: a task that can step eventually does (the
\* join task steps only once the IO task has returned, so the two share one
\* condition).  The upstream is left free to stop sending at any point.
FairSpec ==
    /\ Spec
    /\ \A l \in Lanes : WF_vars(EncRecv(l) \/ EncEncode(l) \/ EncInsert(l))
    /\ WF_vars(IOOpen \/ IOHeader \/ IOAsync \/ IOGet \/ IOWrite \/ IOSync \/ IOClose \/ IOJoin)

----------------------------------------------------------------------------
\* LazyFileListReader::finish as a machine of its own; no sink is running.

sink == << config, sizes, upstream, chan, encoder, lanes, iotask, joinRes, recvd >>

NoSink ==
    /\ maintain_order = TRUE
    /\ sync_on_close = "none"
    /\ include_header = TRUE
    /\ include_bom = FALSE
    /\ backend = "Local"
    /\ sizes = [s \in MorselSeqs |-> 1]
    /\ InitTasks

\* A reader with any row limit, row index offset and paths, on files of any
\* number of rows, and any outcome of the path expansion.
FinishInit ==
    /\ NoSink
    /\ glob \in BOOLEAN
    /\ n_rows \in {NoneOpt} \cup { SomeOpt(Usize(hi, lo)) : hi \in 0..1, lo \in 0..MaxNRows }
    /\ row_index \in {NoneOpt} \cup { SomeOpt(o) : o \in 0..1 }
    /\ paths \in PathLists
    /\ idx64 \in BOOLEAN
    /\ expansion \in { [ok |-> FALSE, paths |-> << >>] }
                     \cup { [ok |-> TRUE, paths |-> ps] : ps \in PathLists }
    /\ rowsOf \in [Paths -> 0..MaxFileRows]
    /\ finPc = "start"
    /\ readers = << >>
    /\ lfs = << >>
    /\ finRes = Pending
    /\ NoExpand

\* file_list_reader.rs:286-290: without glob, finish_no_glob of self; else the
\* paths are expanded, and an error of the expansion is returned.
FinishStart ==
    /\ finPc = "start"
    /\ IF ~glob
       THEN \E fails \in BOOLEAN :
               /\ finRes' = IF fails THEN ErrOf("Error", "finish_no_glob")
                                     ELSE OkFrame(FinishNoGlob(Self))
               /\ finPc' = "done"
       ELSE IF ~expansion.ok
            THEN /\ finRes' = ErrOf("Error", "expand_paths")
                 /\ finPc' = "done"
            ELSE /\ finPc' = "read"
                 /\ UNCHANGED finRes
    /\ UNCHANGED << sink, glob, n_rows, row_index, paths, idx64, expansion, rowsOf,
                    readers, lfs, expand >>

\* file_list_reader.rs:292-309: the next path's reader and its frame; the
\* first error ends the collection.
FinishReadFile ==
    /\ finPc = "read"
    /\ Len(lfs) < Len(expansion.paths)
    /\ LET path == expansion.paths[Len(lfs) + 1] IN
       /\ readers' = Append(readers, PerFileReader(path))
       /\ \E fails \in BOOLEAN :
             IF fails
             THEN /\ finRes' = ErrOf("ComputeError", "error while reading")
                  /\ finPc' = "done"
                  /\ UNCHANGED lfs
             ELSE /\ lfs' = Append(lfs, FinishNoGlob(PerFileReader(path)))
                  /\ UNCHANGED << finRes, finPc >>
    /\ UNCHANGED << sink, glob, n_rows, row_index, paths, idx64, expansion, rowsOf,
                    expand >>

\* file_list_reader.rs:311-324: no frame is an error; else the frames are
\* concatenated, sliced to n_rows and given the row index.
FinishCollect ==
    /\ finPc = "read"
    /\ Len(lfs) = Len(expansion.paths)
    /\ finPc' = "done"
    /\ IF lfs = << >>
       THEN finRes' = NoMatchingFiles
       ELSE \E fails \in BOOLEAN :
               IF fails
               THEN finRes' = ErrOf("Error", "concat_impl")
               ELSE LET lf == Concat(lfs)
                        sliced == IF n_rows.some
                                  THEN Slice(lf, AsIdxSize(n_rows.v))
                                  ELSE lf
                    IN  finRes' = OkFrame(IF row_index.some
                                          THEN WithRowIndex(sliced, row_index.v)
                                          ELSE sliced)
    /\ UNCHANGED << sink, glob, n_rows, row_index, paths, idx64, expansion, rowsOf,
                    readers, lfs, expand >>

FinishNext == FinishStart \/ FinishReadFile \/ FinishCollect

FinishSpec == FinishInit /\ [][FinishNext]_vars

----------------------------------------------------------------------------
\* expand_paths (file_list_reader.rs:44-277) as a machine of its own; no sink
\* is running and no reader is being finished.

\* The file extensions of the file system; Path::extension() of a path.
Exts == {"csv", "parquet"}

\* An entry of a directory listing, of a glob's matches or of an object
\* store's listing: a file of some extension and length, or a directory with
\* its own entries.
FileEntry(ext, size) == [dir |-> FALSE, ext |-> ext, size |-> size, children |-> << >>]
DirEntry(children) == [dir |-> TRUE, ext |-> "", size |-> 0, children |-> children]

SeqsUpTo(S, n) == UNION { [1..k -> S] : k \in 0..n }

FileEntries == { FileEntry(e, s) : e \in Exts, s \in 0..1 }
Entries == FileEntries \cup { DirEntry(c) : c \in SeqsUpTo(FileEntries, MaxChildren) }

\* A path of the `paths` parameter: a directory with its listing in sorted
\* order, a file, or a pattern (it holds one of * ? [) with its matches. The
\* length of a directory's string and the parent() of a path decide
\* expand_start_idx.
ArgPaths ==
    { [kind |-> k, ext |-> e, len |-> n, parent |-> d, listing |-> l] :
        k \in {"dir"}, e \in {""}, n \in 1..MaxPathLen, d \in 1..MaxParents,
        l \in SeqsUpTo(Entries, MaxEntries) }
    \cup
    { [kind |-> k, ext |-> e, len |-> n, parent |-> d, listing |-> l] :
        k \in {"file"}, e \in Exts, n \in {1}, d \in 1..MaxParents,
        l \in { << >> } }
    \cup
    { [kind |-> k, ext |-> e, len |-> n, parent |-> d, listing |-> l] :
        k \in {"glob"}, e \in {"csv"}, n \in {1}, d \in 1..MaxParents,
        l \in SeqsUpTo(Entries, MaxEntries) }

\* The entries under all the paths of a list.
RECURSIVE EntryCount(_)
EntryCount(ps) == IF ps = << >> THEN 0 ELSE Len(Head(ps).listing) + EntryCount(Tail(ps))

\* The lists of paths expand_paths is called with, on a file system of at
\* most MaxEntries entries under them.
ArgLists == { ps \in SeqsUpTo(ArgPaths, MaxArgs) : EntryCount(ps) <= MaxEntries }

\* A PathBuf: where it is in the file system, and its extension.
PathOf(id, ext) == [id |-> id, ext |-> ext]

\* paths[i] of the parameter.
InputPath(i) == PathOf(<< i >>, arg_paths[i].ext)

\* file_list_reader.rs:16-18: the path holds one of * ? [.
get_glob_start_idx(path) == IF path.kind = "glob" THEN SomeOpt(Usize(0, 0)) ELSE NoneOpt

\* file_list_reader.rs:20-39, evaluated left to right: a single input that is
\* not a glob, and is a local directory or was expanded to something else.
expanded_from_single_directory(ps, expanded_paths) ==
    /\ Len(ps) = 1
    /\ ~get_glob_start_idx(ps[1]).some
    /\ \/ (~is_cloud /\ ps[1].kind = "dir")
       \/ (expanded_paths # << >> /\ InputPath(1) # expanded_paths[1])

\* file_list_reader.rs:219-224: of the entries from the k-th on, the files
\* that are not empty, and the directories to visit later.
RECURSIVE NonEmptyFiles(_, _, _)
NonEmptyFiles(id, entries, k) ==
    IF k > Len(entries) THEN << >>
    ELSE (IF ~entries[k].dir /\ entries[k].size > 0
          THEN << PathOf(Append(id, k), entries[k].ext) >>
          ELSE << >>) \o NonEmptyFiles(id, entries, k + 1)

RECURSIVE SubDirs(_, _, _)
SubDirs(id, entries, k) ==
    IF k > Len(entries) THEN << >>
    ELSE (IF entries[k].dir
          THEN << [id |-> Append(id, k), listing |-> entries[k].children] >>
          ELSE << >>) \o SubDirs(id, entries, k + 1)

\* file_list_reader.rs:207-225: the directories of the stack are read front
\* to back, each one's files collected and its directories pushed back.
RECURSIVE ReadDirs(_)
ReadDirs(stack) ==
    IF stack = << >> THEN << >>
    ELSE LET dir == Head(stack) IN
         NonEmptyFiles(dir.id, dir.listing, 1)
         \o ReadDirs(Tail(stack) \o SubDirs(dir.id, dir.listing, 1))

\* file_list_reader.rs:138-156: the objects under the prefix that are not
\* empty, sorted by their path.
RECURSIVE ListStore(_, _, _)
ListStore(id, entries, k) ==
    IF k > Len(entries) THEN << >>
    ELSE (IF entries[k].dir
          THEN ListStore(Append(id, k), entries[k].children, 1)
          ELSE IF entries[k].size > 0
               THEN << PathOf(Append(id, k), entries[k].ext) >>
               ELSE << >>) \o ListStore(id, entries, k + 1)

\* What async_glob returns for a pattern: the objects it matches.
RECURSIVE AsyncGlob(_, _, _)
AsyncGlob(id, entries, k) ==
    IF k > Len(entries) THEN << >>
    ELSE (IF ~entries[k].dir
          THEN << PathOf(Append(id, k), entries[k].ext) >>
          ELSE << >>) \o AsyncGlob(id, entries, k + 1)

\* file_list_reader.rs:58-74: update_expand_start_idx fails on a different
\* directory level when that is checked, and else keeps the smaller index.
UpdateFails(i, idx) ==
    /\ check_directory_level
    /\ ~expand_start_idx.max
    /\ expand_start_idx.v # i
    /\ idx > 1
    /\ arg_paths[idx].parent # arg_paths[idx - 1].parent

UpdatedStartIdx(i) ==
    IF expand_start_idx.max THEN Idx(i) ELSE Idx(Min(expand_start_idx.v, i))

DifferentLevels ==
    ExErr("InvalidOperation",
          "attempted to read from different directory levels with hive partitioning enabled")

\* file_list_reader.rs:83-162: expand_path_cloud of a path that is not a
\* pattern: the object itself, or the listing under it.
ExpandPathCloud(idx) ==
    IF arg_paths[idx].kind = "file"
    THEN [start |-> 0, paths |-> << InputPath(idx) >>]
    ELSE [start |-> arg_paths[idx].len,
          paths |-> ListStore(<< idx >>, arg_paths[idx].listing, 1)]

\* Any call, with any paths and any file system under them.
ExpandInit ==
    /\ NoSink
    /\ glob \in BOOLEAN
    /\ n_rows = NoneOpt
    /\ row_index = NoneOpt
    /\ paths = << >>
    /\ idx64 = FALSE
    /\ expansion = [ok |-> TRUE, paths |-> << >>]
    /\ rowsOf = [p \in Paths |-> 0]
    /\ finPc = "idle"
    /\ readers = << >>
    /\ lfs = << >>
    /\ finRes = Pending
    /\ arg_paths \in ArgLists
    /\ check_directory_level \in BOOLEAN
    /\ is_cloud \in BOOLEAN
    /\ force_async \in BOOLEAN
    /\ exPc = "start"
    /\ path_idx = 1
    /\ out_paths = << >>
    /\ expand_start_idx = UsizeMax
    /\ exRes = ExPending

finishVars == << glob, n_rows, row_index, paths, idx64, expansion, rowsOf, finPc,
                 readers, lfs, finRes >>
expandArgs == << arg_paths, check_directory_level, is_cloud, force_async >>

\* file_list_reader.rs:50-57: no path is Ok with no path and index 0.
ExpandStart ==
    /\ exPc = "start"
    /\ IF arg_paths = << >>
       THEN /\ exRes' = ExOk(<< >>, Idx(0))
            /\ exPc' = "done"
       ELSE /\ exPc' = "loop"
            /\ UNCHANGED exRes
    /\ UNCHANGED << sink, finishVars, expandArgs, path_idx, out_paths,
                    expand_start_idx >>

\* One iteration that ends with an error.
ExpandFail(err) ==
    /\ exRes' = err
    /\ exPc' = "done"
    /\ UNCHANGED << path_idx, out_paths, expand_start_idx >>

\* One iteration that collected `found` and updated the index with i.
ExpandCollect(i, found) ==
    IF UpdateFails(i, path_idx)
    THEN ExpandFail(DifferentLevels)
    ELSE /\ expand_start_idx' = UpdatedStartIdx(i)
         /\ out_paths' = out_paths \o found
         /\ path_idx' = path_idx + 1
         /\ UNCHANGED << exRes, exPc >>

\* file_list_reader.rs:167-192: one path of the loop of the async branch.
ExpandPathAsync ==
    /\ exPc = "loop"
    /\ is_cloud \/ force_async
    /\ path_idx <= Len(arg_paths)
    /\ LET path == arg_paths[path_idx] IN
       \E fails \in BOOLEAN :
          IF fails
          THEN IF get_glob_start_idx(path).some /\ UpdateFails(0, path_idx)
               THEN ExpandFail(DifferentLevels)
               ELSE ExpandFail(ExErr("Error", "object store"))
          ELSE IF get_glob_start_idx(path).some
               THEN ExpandCollect(0, AsyncGlob(<< path_idx >>, path.listing, 1))
               ELSE ExpandCollect(ExpandPathCloud(path_idx).start,
                                  ExpandPathCloud(path_idx).paths)
    /\ UNCHANGED << sink, finishVars, expandArgs >>

\* file_list_reader.rs:199-249: one path of the loop of the local branch.
ExpandPathLocal ==
    /\ exPc = "loop"
    /\ ~(is_cloud \/ force_async)
    /\ path_idx <= Len(arg_paths)
    /\ LET path == arg_paths[path_idx] IN
       \E fails \in BOOLEAN :
          IF path.kind = "dir"
          THEN IF UpdateFails(path.len, path_idx)
               THEN ExpandFail(DifferentLevels)
               ELSE IF fails
                    THEN ExpandFail(ExErr("IO", "read_dir"))
                    ELSE ExpandCollect(path.len,
                            ReadDirs(<< [id |-> << path_idx >>, listing |-> path.listing] >>))
          ELSE IF glob /\ get_glob_start_idx(path).some
               THEN IF UpdateFails(0, path_idx)
                    THEN ExpandFail(DifferentLevels)
                    ELSE IF fails
                         THEN ExpandFail(ExErr("ComputeError", "invalid glob pattern given"))
                         ELSE ExpandCollect(0, NonEmptyFiles(<< path_idx >>, path.listing, 1))
               ELSE /\ ~fails
                    /\ ExpandCollect(0, << InputPath(path_idx) >>)
    /\ UNCHANGED << sink, finishVars, expandArgs >>

\* The loop is over.
ExpandLoopEnd ==
    /\ exPc = "loop"
    /\ path_idx > Len(arg_paths)
    /\ exPc' = "check"
    /\ UNCHANGED << sink, finishVars, expandArgs, path_idx, out_paths,
                    expand_start_idx, exRes >>

\* file_list_reader.rs:255-270: the first path whose extension is not that of
\* out_paths[0] is an error; else the paths as they are.
SameExtensions(ps) ==
    IF \E i \in 1..Len(ps) : ps[i].ext # ps[1].ext
    THEN ExErr("InvalidOperation", "directory contained paths with different file extensions")
    ELSE ExOk(ps, expand_start_idx)

\* file_list_reader.rs:252-276: the paths expanded from a single directory
\* must have the extension of the first, out_paths[0], which is read without
\* a check that there is one.
ExpandCheck ==
    /\ exPc = "check"
    /\ exPc' = "done"
    /\ exRes' = IF expanded_from_single_directory(arg_paths, out_paths)
                THEN IF out_paths = << >>
                     THEN ExPanic("index out of bounds: the len is 0 but the index is 0")
                     ELSE SameExtensions(out_paths)
                ELSE ExOk(out_paths, expand_start_idx)
    /\ UNCHANGED << sink, finishVars, expandArgs, path_idx, out_paths,
                    expand_start_idx >>

ExpandNext ==
    ExpandStart \/ ExpandPathAsync \/ ExpandPathLocal \/ ExpandLoopEnd \/ ExpandCheck

ExpandSpec == ExpandInit /\ [][ExpandNext]_vars

----------------------------------------------------------------------------
\* Observations used by the properties.

RECURSIVE Flatten(_)
Flatten(log) == IF log = << >> THEN << >> ELSE Head(log).data \o Flatten(Tail(log))

\* The bytes of the destination, in order.
Out == Flatten(ioLog)

\* The file operations performed, in order.
Ops == [i \in 1..Len(ioLog) |-> ioLog[i].op]

IsRow(item) == item.k = "row"

\* The seqs of the rows written, in order.
RowsOf(items) == SelectSeq(items, IsRow)
WrittenSeqs == [i \in 1..Len(RowsOf(Out)) |-> RowsOf(Out)[i].s]

Count(item, items) == Cardinality({ i \in 1..Len(items) : items[i] = item })
Positions(name) == { i \in 1..Len(ioLog) : ioLog[i].op = name }

\* Every buffer that exists and is not yet written.
HeldBuffers ==
    { encBuf[l] : l \in { m \in Lanes : encBuf[m] # NoBuffer } }
    \cup UNION { { lanes[l][i] : i \in 1..Len(lanes[l]) } : l \in Lanes }
    \cup (IF ioBuf # NoBuffer THEN {ioBuf} ELSE {})

AnyFailure == ioErrAt # "none" \/ \E l \in Lanes : encRes[l] = "err"
CleanDone ==
    /\ \A l \in Lanes : encRes[l] = "ok"
    /\ ioRes = "ok"
    /\ joinRes = "ok"

\* The seqs of the morsels received by encode task l, and by any encode task.
ReceivedBy(l) == { p[2] : p \in { q \in recvd : q[1] = l } }
Received == UNION { ReceivedBy(l) : l \in Lanes }

----------------------------------------------------------------------------
\* C1: with maintain_order, whatever the interleaving of the encode tasks and
\* the IO task, the buffers handed to write_all are in strictly ascending seq.
C1_OrderedWrites ==
    maintain_order =>
        \A i, j \in 1..Len(WrittenSeqs) : i < j => WrittenSeqs[i] < WrittenSeqs[j]

\* Seq 0 is written and the lanes hold seq 2 and seq 1 at their heads: the
\* consumer has to take the buffer of the other lane first.
C1_Witness ==
    /\ maintain_order
    /\ WrittenSeqs = << 0 >>
    /\ ioPc = "get"
    /\ \E a, b \in Lanes :
          /\ a # b /\ lanes[a] # << >> /\ lanes[b] # << >>
          /\ Head(lanes[a]).seq = 2 /\ Head(lanes[b]).seq = 1

\* The IO task is past its header step (csv.rs:161-169).
HeaderStepDone ==
    \/ ioPc \in {"async", "get", "write", "sync", "close"}
    \/ ioPc = "done" /\ ioErrAt \notin {"open", "header"}

\* The start of the output the configuration asks for.
C2_ExpectedPrefix ==
    (IF include_bom THEN << BomItem >> ELSE << >>) \o
    (IF include_header THEN << HdrItem >> ELSE << >>)

C3_ExactlyOnce ==
    (CleanDone /\ ~AnyFailure) =>
        /\ \A s \in Received : Count(RowItem(s), Out) = 1
        /\ Len(WrittenSeqs) = Cardinality(Received)

C3_Witness ==
    /\ ~maintain_order
    /\ CleanDone /\ ~AnyFailure
    /\ Cardinality(recvd) = 3
    /\ WrittenSeqs[1] > WrittenSeqs[2]

\* The sink has completed successfully with the file closed.
C4_Terminated ==
    /\ CleanDone
    /\ \A l \in Lanes : pc[l] = "done"
    /\ ioPc = "done"
    /\ Len(ioLog) > 0 /\ ioLog[Len(ioLog)].op = "close"

\* C4: once the upstream has closed every channel, under fair scheduling the
\* run reaches either a failed step or the state where every encode task has
\* returned Ok, the consumer has seen None, the file is closed and the IO
\* join handle has resolved Ok.
C4_CleanShutdown == upClosed ~> (AnyFailure \/ C4_Terminated)

C4_Witness ==
    /\ upClosed /\ ~AnyFailure /\ C4_Terminated
    /\ Len(WrittenSeqs) = 3

\* The file operations of a successful run with as many writes as were made.
C5_ExpectedOps ==
    << "open" >> \o
    (IF include_header \/ include_bom THEN << "header" >> ELSE << >>) \o
    [i \in 1..Cardinality(Positions("write")) |-> "write"] \o
    (IF backend = "Local" /\ sync_on_close # "none" THEN << "sync" >> ELSE << >>) \o
    << "close" >>

\* C5: a close is never followed by another file operation, and when the IO
\* join handle has resolved Ok the file operations were, in this order: open,
\* the header/BOM write (if any), the buffer writes, the fsync (if requested
\* and Local), one close.
C5_IoOrder ==
    /\ \A i \in Positions("close") : i = Len(ioLog)
    /\ joinRes = "ok" => Ops = C5_ExpectedOps

C5_Witness ==
    /\ joinRes = "ok"
    /\ Ops = << "open", "header", "write", "write", "sync", "close" >>

\* The number of buffers encoded and not yet written.
InFlight ==
    Cardinality({ l \in Lanes : encBuf[l] # NoBuffer })
    + Cardinality({ << l, i >> \in Lanes \X (1..(DEFAULT_SINK_LINEARIZER_BUFFER_SIZE + 1)) :
                      i <= Len(lanes[l]) })
    + (IF ioBuf # NoBuffer THEN 1 ELSE 0)

C7_TokenDroppedBeforeInsert ==
    \A l \in Lanes :
        /\ pc[l] = "encode" => encTok[l]
        /\ pc[l] = "insert" => ~encTok[l]

\* An encode task blocked on a full lane.
BlockedOnInsert(l) ==
    /\ pc[l] = "insert"
    /\ ~LinRxDropped
    /\ Len(lanes[l]) = LinBufferSize

C7_Witness == \E l \in Lanes : BlockedOnInsert(l) /\ ~encTok[l]

\* The step in which the insert of encode task l succeeds.
InsertSucceeds(l) == pc[l] = "insert" /\ Len(lanes'[l]) = Len(lanes[l]) + 1

\* C8 (as stated): the encode task still owns the consume_token at the moment
\* its insert into the linearizer succeeds.
C8_Original == [][\A l \in Lanes : InsertSucceeds(l) => encTok[l]]_vars

\* C8 (amended): the consume_token is dropped before the buffer is handed to
\* the linearizer: it is released by the step that finishes the encoding, and
\* the encode task no longer owns it at the moment its insert succeeds.
C8_TokenDroppedBeforeHandOff ==
    [][\A l \in Lanes :
          /\ InsertSucceeds(l) => ~encTok[l]
          /\ (encTok[l] /\ ~encTok'[l]) => pc[l] = "encode"]_vars

C8_Witness ==
    \E l \in Lanes : lanes[l] # << >> /\ pc[l] = "recv" /\ ~encTok[l] /\ ~LinRxDropped

\* Every encode task and the IO task have returned, the join handle has resolved.
AllTasksFinished ==
    /\ \A l \in Lanes : pc[l] = "done"
    /\ ioPc = "done"
    /\ joinRes # "pending"

\* C9: with maintain_order, a state in which some task has not finished always
\* has an enabled step.
C9_NoDeadlock == (maintain_order /\ ~AllTasksFinished) => ENABLED Next

\* The linearizer waits for a lane that is empty while another lane is full,
\* its encode task blocked in insert and its channel occupied.
C9_Witness ==
    /\ maintain_order /\ ioPc = "get"
    /\ \E a, b \in Lanes :
          /\ a # b
          /\ BlockedOnInsert(a) /\ chan[a] # NoMorsel
          /\ lanes[b] = << >> /\ pc[b] = "recv" /\ chan[b] = NoMorsel

\* The file operations that can precede the failure of `step`.
C10_OpsAllowedAfter(step) ==
    CASE step = "open" -> {}
      [] step = "header" -> {"open"}
      [] step = "async" -> {"open", "header"}
      [] step = "write" -> {"open", "header", "write"}
      [] step = "sync" -> {"open", "header", "write"}
      [] step = "close" -> {"open", "header", "write", "sync"}
      [] OTHER -> {"open", "header", "write", "sync", "close"}

\* C10: once a step of the IO task has failed the task has returned the error
\* and performed no later step: the file operations are those before the
\* failed step (none after a failed open), and the join handle resolves to
\* nothing but the error.
C10_ErrorAborts ==
    /\ ioErrAt # "none" =>
          /\ ioPc = "done"
          /\ ioRes = "err"
          /\ joinRes \in {"pending", "err"}
          /\ \A i \in 1..Len(ioLog) : ioLog[i].op \in C10_OpsAllowedAfter(ioErrAt)
          /\ ioErrAt = "open" => Out = << >>
    /\ joinRes # "pending" => joinRes = ioRes

C10_Witness ==
    /\ ioErrAt = "write"
    /\ joinRes = "err"
    /\ Ops = << "open", "header", "write" >>

----------------------------------------------------------------------------
\* The step in which write_all succeeds on a buffer encoded by task m.
WritesBufferOf(m) ==
    /\ ioPc = "write"
    /\ Len(ioLog') = Len(ioLog) + 1
    /\ ioBuf.seq \in ReceivedBy(m)

\* The step in which encode task m finishes encoding a buffer.
ProducesBuffer(m) == pc[m] = "encode" /\ pc'[m] = "insert"

\* C11 (as stated): once an encode task has returned a serialization error,
\* the IO task writes no buffer encoded by another lane and no other encode
\* task produces a buffer.
C11_Original ==
    [][\A l \in Lanes :
          encRes[l] = "err" =>
              \A m \in Lanes \ {l} : ~WritesBufferOf(m) /\ ~ProducesBuffer(m)]_vars


\* Encode task 1 failed on morsel 0; morsels 1 and 2 were written after it
\* and the IO task closed the file and resolved Ok.
C11_Witness ==
    /\ maintain_order
    /\ encRes[1] = "err" /\ ReceivedBy(1) = {0}
    /\ WrittenSeqs = << 1, 2 >>
    /\ joinRes = "ok"

----------------------------------------------------------------------------
\* The step in which encode task l returns.
Returns(l) == pc[l] # "done" /\ pc'[l] = "done"

\* C12 (as stated): once the IO task has exited and dropped the linearizer
\* consumer, every encode task that terminates terminates with Ok.
C12_Original ==
    [][\A l \in Lanes : (LinRxDropped /\ Returns(l)) => encRes'[l] = "ok"]_vars

\* C12 (amended): once the IO task has exited and dropped the linearizer
\* consumer, an encode task that awaits its insert (blocked on a full lane or
\* not) finds it closed: its next step returns Ok and receives no morsel, and
\* under fair scheduling it takes that step; after the closure an encode task
\* returns an error only from the serialization of a morsel it was encoding.
C12_ClosedInsertReturnsOk ==
    /\ [][\A l \in Lanes :
             /\ (LinRxDropped /\ pc[l] = "insert" /\ pc'[l] # "insert") =>
                    /\ pc'[l] = "done" /\ encRes'[l] = "ok"
                    /\ recvd' = recvd /\ lanes'[l] = lanes[l]
             /\ (LinRxDropped /\ Returns(l) /\ encRes'[l] = "err") =>
                    pc[l] = "encode"]_vars
    /\ \A l \in Lanes :
          (LinRxDropped /\ pc[l] = "insert") ~> (pc[l] = "done" /\ encRes[l] = "ok")

\* A write failed and an encode task has returned Ok while the upstream is
\* still open: its insert reported the closure.
C12_Witness ==
    /\ ioErrAt = "write" /\ ~upClosed
    /\ \E l \in Lanes : pc[l] = "done" /\ encRes[l] = "ok"

----------------------------------------------------------------------------
\* The IO task is past its sync step (csv.rs:177-179) without an error in it.
SyncStepDone ==
    \/ ioPc = "close"
    \/ ioPc = "done" /\ ioErrAt \in {"none", "close"}

\* C13: an fsync is issued only for a Local backend with sync_on_close data
\* or all, and then by every run that gets past the sync step; it is issued
\* at most once, after every write_all and before the close; a Cloud backend
\* is never synced; and with sync_on_close none the sync step never fails.
C13_FsyncOnlyLocal ==
    /\ Cardinality(Positions("sync")) <= 1
    /\ Positions("sync") # {} =>
          backend = "Local" /\ sync_on_close \in {"data", "all"}
    /\ SyncStepDone =>
          (Positions("sync") # {} <=>
              (backend = "Local" /\ sync_on_close \in {"data", "all"}))
    /\ \A i \in Positions("sync") :
          /\ \A j \in Positions("write") : j < i
          /\ \A j \in Positions("close") : i < j
          /\ ioPc \in {"close", "done"}
    /\ backend = "Cloud" => Positions("sync") = {} /\ ioErrAt # "sync"
    /\ sync_on_close = "none" => ioErrAt # "sync"

C13_Witness ==
    /\ backend = "Local" /\ sync_on_close = "all"
    /\ joinRes = "ok"
    /\ Ops = << "open", "write", "write", "write", "sync", "close" >>

----------------------------------------------------------------------------
\* Every encode task has returned (its lin_tx is dropped) and no inserted
\* buffer is left in a lane.
ProducersGoneAndDrained ==
    \A l \in Lanes : pc[l] = "done" /\ lanes[l] = << >>

\* The IO task has left its drain loop through the None of lin_rx.get().
PastDrainLoop ==
    \/ ioPc \in {"sync", "close"}
    \/ ioPc = "done" /\ ioErrAt \in {"none", "sync", "close"}

\* C14: a lin_rx.get() of the IO task ends the drain loop exactly when every
\* encode task has dropped its producer and every lane is empty, and
\* otherwise yields a buffer; in that state the get is not blocked; and while
\* the IO task is at its fsync or close, or has finished them, no encode task
\* is alive and no inserted buffer is unwritten.
C14_DrainEndsWhenProducersGone ==
    /\ [][(ioPc = "get" /\ ioPc' # "get") =>
             /\ ioPc' = "sync" <=> ProducersGoneAndDrained
             /\ ioPc' = "write" <=> ~ProducersGoneAndDrained]_vars
    /\ []((ioPc = "get" /\ ProducersGoneAndDrained) => ENABLED IOGet)
    /\ [](PastDrainLoop => ProducersGoneAndDrained /\ ioBuf = NoBuffer)

\* The drain loop has ended after three writes; the last encode task to
\* return did so on a closed input channel.
C14_Witness ==
    /\ ioPc = "sync"
    /\ Len(WrittenSeqs) = 3
    /\ ProducersGoneAndDrained
    /\ upClosed /\ \A l \in Lanes : encRes[l] = "ok"

----------------------------------------------------------------------------
\* The step in which lin_rx.get() hands a buffer to the IO task.
EmitStep == ioPc = "get" /\ ioPc' = "write"

\* C15: with maintain_order, lin_rx.get() yields a buffer only in a state in
\* which every lane is non-empty or is empty with its producer dropped: it
\* never yields one while a lane with a live producer is empty.
C15_IdleLaneNotSkipped ==
    [][(maintain_order /\ EmitStep) =>
          \A l \in Lanes : lanes[l] # << >> \/ pc[l] = "done"]_vars

\* The consumer holds back: the IO task is in get, a lane has a buffer with
\* seq 1 ready, the other lane is empty with its encode task alive and still
\* encoding morsel 0, and the get cannot complete.
C15_Witness ==
    /\ maintain_order /\ ioPc = "get"
    /\ \E a, b \in Lanes :
          /\ lanes[a] # << >> /\ Head(lanes[a]).seq = 1
          /\ lanes[b] = << >> /\ pc[b] = "encode" /\ encMorsel[b].seq = 0
    /\ ~ENABLED IOGet

----------------------------------------------------------------------------
\* The largest element of a non-empty set of numbers.
MaxOf(S) == CHOOSE x \in S : \A y \in S : y <= x

\* The morsel encode task l failed on: the last one it received.
FailedOn(l) ==
    IF encRes[l] = "err" THEN {MaxOf(ReceivedBy(l))} ELSE {}

\* The lengths of the buffers encode task l has produced so far: those of the
\* morsels it received, but for the one it is encoding and the one it failed on.
ProducedLens(l) ==
    { BufferLen(s) : s \in (ReceivedBy(l) \ {encMorsel[l].seq}) \ FailedOn(l) }

\* C16: the allocation_size of every encode task is the largest of
\* DEFAULT_ALLOCATION_SIZE and the lengths of the buffers it has produced so
\* far; it never decreases, and it changes only in a step in which that very
\* task finishes encoding a morsel.
C16_AllocationSizeMonotone ==
    /\ [](\A l \in Lanes :
             allocation_size[l] = MaxOf({DEFAULT_ALLOCATION_SIZE} \cup ProducedLens(l)))
    /\ [][\A l \in Lanes :
             /\ allocation_size'[l] >= allocation_size[l]
             /\ allocation_size'[l] # allocation_size[l] => ProducesBuffer(l)]_vars

\* Task 1 has produced a buffer of DEFAULT + 2 bytes and then one of
\* DEFAULT + 1 bytes and keeps the larger size; task 2 has produced a
\* one-byte buffer and is still at the default.
C16_Witness ==
    /\ sizes[0] = DEFAULT_ALLOCATION_SIZE + 2 /\ sizes[1] = 1
    /\ sizes[2] = DEFAULT_ALLOCATION_SIZE + 1
    /\ ReceivedBy(1) = {0, 2} /\ ReceivedBy(2) = {1}
    /\ \A l \in Lanes : pc[l] = "insert"
    /\ allocation_size = << DEFAULT_ALLOCATION_SIZE + 2, DEFAULT_ALLOCATION_SIZE >>

----------------------------------------------------------------------------
\* No encode task has received a morsel with a row in it.
OnlyEmptyMorsels == \A s \in Received : sizes[s] = 0

\* C17: when no step has failed, every task has completed and no lane has
\* delivered a morsel with rows (none at all, or only morsels of zero rows),
\* the output is exactly the BOM (if include_bom) followed by the header line
\* (if include_header): the BOM alone with include_bom and not include_header;
\* and with both flags off there is no header operation, so that the output
\* starts with the rows of the first buffer written.
C17_HeaderWithoutMorsels ==
    /\ (CleanDone /\ ~AnyFailure /\ OnlyEmptyMorsels) =>
          /\ Out = (IF include_bom THEN << BomItem >> ELSE << >>) \o
                   (IF include_header THEN << HdrItem >> ELSE << >>)
          /\ (include_bom /\ ~include_header) => Out = << BomItem >>
    /\ (~include_bom /\ ~include_header) =>
          /\ Positions("header") = {}
          /\ Out # << >> => IsRow(Out[1])

\* include_bom without include_header and a single morsel of zero rows: its
\* empty buffer was written and the output is the BOM alone.
C17_Witness ==
    /\ include_bom /\ ~include_header
    /\ CleanDone /\ ~AnyFailure
    /\ Received = {0} /\ sizes[0] = 0
    /\ Ops = << "open", "header", "write", "close" >>
    /\ Out = << BomItem >>

----------------------------------------------------------------------------
\* The encode task that received the morsel seq.
LaneOf(seq) == CHOOSE l \in Lanes : seq \in ReceivedBy(l)

\* The step in which encode task l receives a morsel.
ReceivesMorsel(l) == pc[l] = "recv" /\ pc'[l] = "encode"

----------------------------------------------------------------------------
\* C19: an encode task holds a consume_token exactly while it encodes the
\* morsel the token came with: it acquires it in the step that receives the
\* morsel and in no other, and releases it in the step that ends the encoding
\* of that morsel, on success as on a serialization error, and in no other; so
\* it holds none while it receives, while it awaits the insert (whether the
\* insert succeeds or reports the linearizer closed) or after it has returned.
C19_TokenReleasedOnce ==
    /\ [](\A l \in Lanes : encTok[l] <=> pc[l] = "encode")
    /\ [][\A l \in Lanes :
             /\ (~encTok[l] /\ encTok'[l]) <=> ReceivesMorsel(l)
             /\ (encTok[l] /\ ~encTok'[l]) <=> (pc[l] = "encode" /\ pc'[l] # "encode")
             /\ (encTok[l] /\ encTok'[l]) => encMorsel'[l] = encMorsel[l]]_vars

\* One encode task has returned a serialization error and holds no token,
\* another has returned Ok from an insert that reported the linearizer closed.
C19_Witness ==
    \E a, b \in Lanes :
        /\ encRes[a] = "err" /\ ~encTok[a]
        /\ encRes[b] = "ok" /\ ~encTok[b] /\ ~upClosed /\ LinRxDropped

----------------------------------------------------------------------------
\* The rows of all expanded files, in the order of the expansion.
AllRows ==
    Concat([i \in 1..Len(expansion.paths) |-> FileFrame(expansion.paths[i])])

\* The frame the configured row limit and row index select from all rows.
C20_ExpectedFrame ==
    LET limited == IF n_rows.some THEN Slice(AllRows, n_rows.v) ELSE AllRows
    IN  IF row_index.some THEN WithRowIndex(limited, row_index.v) ELSE limited

\* C20 (as stated): with glob, every per-file reader is built with no row
\* limit and no row index, so that its frame holds all rows of its file; a
\* frame returned is the concatenation of the per-file frames limited to the
\* first n_rows rows and then given the row index, once; and an expansion
\* to no paths returns the ComputeError "no matching files found".
C20_Original ==
    /\ \A i \in 1..Len(readers) :
          ~readers[i].n_rows.some /\ ~readers[i].row_index.some
    /\ \A i \in 1..Len(lfs) : lfs[i] = FileFrame(expansion.paths[i])
    /\ (glob /\ finPc = "done" /\ finRes.kind = "Ok") =>
          /\ finRes.frame = C20_ExpectedFrame
          /\ \A i \in 1..Len(finRes.frame) :
                Len(finRes.frame[i].idx) = (IF row_index.some THEN 1 ELSE 0)
    /\ (glob /\ finPc = "done" /\ expansion.ok /\ expansion.paths = << >>) =>
          finRes = NoMatchingFiles

\* A row limit of 2^32 on one file of two rows, IdxSize being u32: finish
\* returns a frame of no rows.
C20_Witness ==
    /\ glob /\ ~idx64
    /\ n_rows = SomeOpt(Usize(1, 0))
    /\ expansion = [ok |-> TRUE, paths |-> << 1 >>] /\ rowsOf[1] = 2
    /\ finPc = "done" /\ finRes = OkFrame(<< >>)


----------------------------------------------------------------------------
\* expand_paths went through its loop without an error and has returned.
LoopCompleted ==
    /\ exPc = "done"
    /\ arg_paths # << >>
    /\ path_idx > Len(arg_paths)

\* Some collected path has an extension that is not the first one's.
ExtensionsDiffer ==
    \E i \in 1..Len(out_paths) : out_paths[i].ext # out_paths[1].ext

\* C21: when the collected paths were expanded from a single non-glob
\* directory path, expand_paths returns an InvalidOperation error if some
\* collected path's extension differs from the first one's and otherwise
\* returns the collected paths unchanged and in order; when they were not
\* expanded from a single directory it returns them without any check.
C21_Original ==
    LoopCompleted =>
        IF expanded_from_single_directory(arg_paths, out_paths) /\ ExtensionsDiffer
        THEN exRes.kind = "InvalidOperation"
        ELSE exRes.kind = "Ok" /\ exRes.paths = out_paths

\* A single local directory whose only file is empty: no path is collected,
\* and expand_paths ends in the panic of out_paths[0] instead of returning.
C21_Witness ==
    /\ LoopCompleted
    /\ ~is_cloud /\ ~force_async
    /\ Len(arg_paths) = 1
    /\ arg_paths[1].kind = "dir"
    /\ arg_paths[1].listing = << FileEntry("csv", 0) >>
    /\ expanded_from_single_directory(arg_paths, out_paths)
    /\ out_paths = << >>
    /\ exRes.kind = "panic"

\* C22: expand_paths never reads an element of an empty collection: for a
\* single non-glob local directory under which no non-empty file is found it
\* returns Ok with no path, and it never ends in a panic.
C22_Original ==
    /\ exPc = "done" => exRes.kind # "panic"
    /\ (/\ LoopCompleted
        /\ Len(arg_paths) = 1
        /\ arg_paths[1].kind = "dir"
        /\ ~is_cloud
        /\ out_paths = << >>)
       => (exRes.kind = "Ok" /\ exRes.paths = << >>)

\* A single local directory with no entry at all: the loop collects nothing,
\* expanded_from_single_directory holds by is_dir() alone, and out_paths[0]
\* panics.
C22_Witness ==
    /\ exPc = "done"
    /\ ~is_cloud
    /\ Len(arg_paths) = 1
    /\ arg_paths[1].kind = "dir"
    /\ arg_paths[1].listing = << >>
    /\ path_idx = 2
    /\ out_paths = << >>
    /\ exRes = ExPanic("index out of bounds: the len is 0 but the index is 0")


============================================================================
